---- MODULE Spec2Model ----
(***************************************************************************)
(* Model of the chat dispatcher of src/app/ai-agent/page.jsx: the          *)
(* AIResponse component (query, response, loading, chatHistory), its       *)
(* handleQuery handler and the three handlers it delegates to              *)
(* (handleConnect, fetchCryptoPrice, handleOllamaQuery).                   *)
(*                                                                         *)
(* JavaScript runs one task at a time: the code between two awaits is one  *)
(* atomic step.  Every invocation of handleQuery is a process; its pc      *)
(* names the await it is suspended at.  Nothing in the component keeps the *)
(* Ask button from being clicked while an invocation is suspended, so      *)
(* several invocations may be suspended at once.                           *)
(*                                                                         *)
(* Text is a sequence of string pieces: a query is a sequence of its       *)
(* characters, a fixed message is a sequence of one piece, and string      *)
(* concatenation (+, template literals) is \o.                             *)
(***************************************************************************)
EXTENDS Integers, Sequences, FiniteSets, TLC

\* Number of clicks on Ask that the model follows.
MaxSubmits == 2
\* Number of reads, over all response bodies, that deliver a value.
MaxReads == 2

Inv == 1..MaxSubmits

VARIABLES
    query,        \* useState('') of the input field            (line 66)
    response,     \* useState('') the caller-visible response    (line 67)
    loading,      \* useState(false)                             (line 68)
    chatHistory,  \* useState([]) the conversation log           (line 69)
    userAuthSig,  \* module-level auth signature                 (line 12)
    ethereum,     \* window.ethereum: "present" or "absent", and "unread"
                  \* until the first read of it settles which
    pc,           \* per invocation: the await it is suspended at
    q,            \* per invocation: the query its closure captured
    address,      \* per invocation: connectedAddress            (line 144)
    cryptoSymbol, \* per invocation: cryptoSymbol                (line 90)
    fullResponse, \* per invocation: fullResponse                (line 170)
    answers,      \* history, per invocation: what the collaborators it
                  \* awaited answered, in order
    owner         \* history: owner[k] is the invocation that appended
                  \* chatHistory[k]

vars == <<query, response, loading, chatHistory, userAuthSig, ethereum, pc, q,
          address, cryptoSymbol, fullResponse, answers, owner>>

(***************************************************************************)
(* Strings                                                                 *)
(***************************************************************************)
UpperToLower ==
    ("A" :> "a") @@ ("B" :> "b") @@ ("C" :> "c") @@ ("D" :> "d") @@ ("E" :> "e") @@
    ("F" :> "f") @@ ("G" :> "g") @@ ("H" :> "h") @@ ("I" :> "i") @@ ("J" :> "j") @@
    ("K" :> "k") @@ ("L" :> "l") @@ ("M" :> "m") @@ ("N" :> "n") @@ ("O" :> "o") @@
    ("P" :> "p") @@ ("Q" :> "q") @@ ("R" :> "r") @@ ("S" :> "s") @@ ("T" :> "t") @@
    ("U" :> "u") @@ ("V" :> "v") @@ ("W" :> "w") @@ ("X" :> "x") @@ ("Y" :> "y") @@
    ("Z" :> "z")

\* String.prototype.toLowerCase, per character
LowerChar(c) == IF c \in DOMAIN UpperToLower THEN UpperToLower[c] ELSE c

toLowerCase(s) == [k \in 1..Len(s) |-> LowerChar(s[k])]

WhiteSpace == {" ", "\t", "\n"}

RECURSIVE trimStart(_)
trimStart(s) ==
    IF s # <<>> /\ Head(s) \in WhiteSpace THEN trimStart(Tail(s)) ELSE s

RECURSIVE trimEnd(_)
trimEnd(s) ==
    IF s # <<>> /\ s[Len(s)] \in WhiteSpace
    THEN trimEnd(SubSeq(s, 1, Len(s) - 1))
    ELSE s

\* String.prototype.trim
trim(s) == trimEnd(trimStart(s))

\* String.prototype.includes
includes(s, sub) ==
    \E k \in 1..(Len(s) - Len(sub) + 1) : SubSeq(s, k, k + Len(sub) - 1) = sub

\* the character class \w
WordChars ==
    {"a", "b", "c", "d", "e", "f", "g", "h", "i", "j", "k", "l", "m", "n", "o",
     "p", "q", "r", "s", "t", "u", "v", "w", "x", "y", "z", "_",
     "0", "1", "2", "3", "4", "5", "6", "7", "8", "9"}
    \cup DOMAIN UpperToLower

PriceOf == <<"p", "r", "i", "c", "e", " ", "o", "f">>
PriceOfSp == PriceOf \o <<" ">>
Connect == <<"c", "o", "n", "n", "e", "c", "t">>

\* the longest run of word characters of s that starts at position k
RECURSIVE WordRun(_, _)
WordRun(s, k) ==
    IF k <= Len(s) /\ s[k] \in WordChars
    THEN <<s[k]>> \o WordRun(s, k + 1)
    ELSE <<>>

\* positions where /price of (\w+)/i matches in s
MatchStarts(s) ==
    {k \in 1..Len(s) :
        /\ k + Len(PriceOfSp) <= Len(s)
        /\ toLowerCase(SubSeq(s, k, k + Len(PriceOfSp) - 1)) = PriceOfSp
        /\ s[k + Len(PriceOfSp)] \in WordChars}

Min(S) == CHOOSE x \in S : \A y \in S : x <= y

NoMatch == [matched |-> FALSE]

\* query.match(/price of (\w+)/i): the leftmost match and its group 1
match(s) ==
    IF MatchStarts(s) = {}
    THEN NoMatch
    ELSE [matched |-> TRUE,
          group1 |-> WordRun(s, Min(MatchStarts(s)) + Len(PriceOfSp))]

cryptoSymbolMappings ==
    (<<"b", "t", "c">> :> <<"bitcoin">>) @@
    (<<"e", "t", "h">> :> <<"ethereum">>) @@
    (<<"d", "o", "g", "e">> :> <<"dogecoin">>) @@
    (<<"a", "d", "a">> :> <<"cardano">>) @@
    (<<"x", "r", "p">> :> <<"ripple">>) @@
    (<<"m", "a", "t", "i", "c">> :> <<"polygon">>) @@
    (<<"s", "o", "l">> :> <<"solana">>) @@
    (<<"b", "n", "b">> :> <<"binancecoin">>) @@
    (<<"d", "o", "t">> :> <<"polkadot">>)

\* cryptoSymbolMappings is an object literal: a key it does not own is looked
\* up on Object.prototype.  Of the members of Object.prototype, two have a
\* name that is all lower case and made of word characters: constructor (the
\* function Object) and __proto__ (Object.prototype itself).  Each is given
\* by the text a template literal renders it as.
ObjectPrototype ==
    (<<"c", "o", "n", "s", "t", "r", "u", "c", "t", "o", "r">> :>
        <<"function Object() { [native code] }">>) @@
    (<<"_", "_", "p", "r", "o", "t", "o", "_", "_">> :> <<"[object Object]">>)

Null == <<"null">>

\* extractCryptoSymbol: null when the pattern does not match; otherwise
\* cryptoSymbolMappings[userSymbol] || userSymbol, every value the lookup
\* can find being truthy
extractCryptoSymbol(s) ==
    IF ~match(s).matched
    THEN Null
    ELSE LET userSymbol == toLowerCase(match(s).group1)
         IN  IF userSymbol \in DOMAIN cryptoSymbolMappings
             THEN cryptoSymbolMappings[userSymbol]
             ELSE IF userSymbol \in DOMAIN ObjectPrototype
                  THEN ObjectPrototype[userSymbol]
                  ELSE userSymbol

(***************************************************************************)
(* The values the handlers show and log                                    *)
(***************************************************************************)
Empty == <<>>
MsgEnterQuery == <<"Please enter a query">>
MsgInvalidSymbol == <<"Please provide a valid cryptocurrency name or symbol.">>
\* line 108; no handler lets an error reach the catch of line 106
MsgFailed == <<"Failed to get a response">>
MsgConnecting == <<"Connecting to wallet...">>
MsgNoProvider == <<"No Ethereum provider detected.">>
MsgNoWallet == <<"No wallet connected">>
MsgConnectFailed == <<"Failed to connect wallet or authenticate.">>
MsgAIFailed == <<"Failed to get AI response">>
MsgOllamaFailed == <<"Failed to get a response from Ollama">>
PriceNotFound == <<"Price not found">>
ErrorFetchingPrice == <<"Error fetching price">>

\* `Connected to wallet: ${connectedAddress}`
MsgConnected(a) == <<"Connected to wallet: ">> \o a
\* `Connected to wallet: ${connectedAddress} and authenticated successfully!`
MsgAuthenticated(a) == MsgConnected(a) \o <<" and authenticated successfully!">>
\* `The current price of ${cryptoSymbol} is $${cryptoPrice}`
MsgPrice(sym, price) ==
    <<"The current price of ">> \o sym \o <<" is $">> \o price

UserMessage(text) == [text |-> text, sender |-> "user"]
AiMessage(text) == [text |-> text, sender |-> "ai"]

(***************************************************************************)
(* The collaborators' answers                                              *)
(***************************************************************************)
\* window.ethereum.request({ method: 'eth_requestAccounts' })
AccountsOutcomes ==
    {[throws |-> TRUE, accounts |-> <<>>],
     [throws |-> FALSE, accounts |-> <<>>],
     [throws |-> FALSE, accounts |-> << <<"0xA1">> >>]}

\* LitJsSdk.checkAndSignAuthMessage({ chain: 'ethereum' })
NoSig == "undefined"
SignOutcomes ==
    {[throws |-> TRUE, authSig |-> NoSig], [throws |-> FALSE, authSig |-> "sig"]}

\* axios.get(...simple/price...): a network error, a body without the
\* symbol, or a body with the symbol and its usd value
AxiosOutcomes ==
    {[throws |-> TRUE, hasSymbol |-> FALSE, usd |-> 0],
     [throws |-> FALSE, hasSymbol |-> FALSE, usd |-> 0],
     [throws |-> FALSE, hasSymbol |-> TRUE, usd |-> 0],
     [throws |-> FALSE, hasSymbol |-> TRUE, usd |-> 42]}

\* a number in a template literal
NumberText(n) == IF n = 42 THEN <<"42">> ELSE <<"0">>

\* fetchCryptoPrice: what it returns for an answer of the price service
fetchCryptoPrice(res) ==
    IF res.throws
    THEN ErrorFetchingPrice
    ELSE IF res.hasSymbol
         THEN IF res.usd # 0 THEN NumberText(res.usd) ELSE PriceNotFound
         ELSE PriceNotFound

\* fetch(...api/generate...): rejects, or resolves with ok false or true
FetchOutcomes ==
    {[throws |-> TRUE, ok |-> FALSE],
     [throws |-> FALSE, ok |-> FALSE],
     [throws |-> FALSE, ok |-> TRUE]}

(***************************************************************************)
(* The response body: bytes, TextDecoder and JSON.parse                    *)
(*                                                                         *)
(* A read delivers a sequence of byte groups.  A group is the bytes of a   *)
(* complete JSON text, a newline, bytes that are no JSON text, or one of   *)
(* the two bytes C3 A9 of the character e-acute.  JsonOpen and JsonClose   *)
(* are the bytes of a fragment before and after the text of its response   *)
(* field: {"response":" and "}.                                            *)
(***************************************************************************)
JsonHe == "{\"response\":\"He\"}"
JsonLlo == "{\"response\":\"llo\"}"
JsonDone == "{\"done\":true}"
JsonNull == "null"
NotJson == "not-json"
JsonOpen == "{\"response\":\""
JsonClose == "\"}"
ByteC3 == "C3"
ByteA9 == "A9"
Replacement == "U+FFFD"
EAcute == "U+00E9"

\* TextDecoder.decode(value) with no stream option: every call starts
\* afresh, so a lead byte with no continuation byte after it in the same
\* value, and a continuation byte with no lead byte before it, decode to
\* U+FFFD.
RECURSIVE decode(_)
decode(value) ==
    IF value = <<>> THEN <<>>
    ELSE IF Head(value) = ByteC3
         THEN IF Len(value) >= 2 /\ value[2] = ByteA9
              THEN <<EAcute>> \o decode(SubSeq(value, 3, Len(value)))
              ELSE <<Replacement>> \o decode(Tail(value))
         ELSE IF Head(value) = ByteA9
              THEN <<Replacement>> \o decode(Tail(value))
              ELSE <<Head(value)>> \o decode(Tail(value))

\* the JSON texts of the model and the values they denote
JsonTexts ==
    (JsonHe :> [type |-> "object", hasResponse |-> TRUE, response |-> <<"He">>]) @@
    (JsonLlo :> [type |-> "object", hasResponse |-> TRUE, response |-> <<"llo">>]) @@
    (JsonDone :> [type |-> "object", hasResponse |-> FALSE, response |-> <<>>]) @@
    (JsonNull :> [type |-> "null", hasResponse |-> FALSE, response |-> <<>>])

SyntaxError == [type |-> "SyntaxError", hasResponse |-> FALSE, response |-> <<>>]

\* JSON.parse(chunk): white space around the one JSON text is allowed;
\* anything else throws
JSONparse(chunk) ==
    LET t == trim(chunk)
    IN  IF Len(t) = 1 /\ t[1] \in DOMAIN JsonTexts
        THEN JsonTexts[t[1]]
        ELSE IF /\ Len(t) = 3
                /\ t[1] = JsonOpen
                /\ t[2] \in {EAcute, Replacement}
                /\ t[3] = JsonClose
             THEN [type |-> "object", hasResponse |-> TRUE, response |-> <<t[2]>>]
             ELSE SyntaxError

\* lines 176-181: whether the try block completes, JSON.parse not throwing
\* and parsedChunk.response not being read from null
ChunkParses(chunk) == JSONparse(chunk).type = "object"

\* parsedChunk.response || ''
ChunkDelta(chunk) ==
    IF JSONparse(chunk).hasResponse /\ JSONparse(chunk).response # <<>>
    THEN JSONparse(chunk).response
    ELSE Empty

\* the values a read may deliver: two fragments with a delta, the second
\* ended by a newline, bytes that are no JSON text, and the JSON text null
Values ==
    {<<JsonHe>>, <<JsonLlo, "\n">>, <<NotJson>>, <<JsonNull>>}

\* the values of a wider range: besides the ones above, a read that carries
\* two fragments, each ended by a newline, the first well-formed or not; a
\* fragment whose response is the character e-acute, in one read; and the
\* two halves of that fragment when the read boundary falls between the two
\* bytes of the character
SoloValues ==
    Values \cup
    {<<JsonHe, "\n", JsonLlo, "\n">>,
     <<NotJson, "\n", JsonLlo, "\n">>,
     <<JsonOpen, ByteC3, ByteA9, JsonClose, "\n">>,
     <<JsonOpen, ByteC3>>,
     <<ByteA9, JsonClose, "\n">>}

(***************************************************************************)
(* The queries typed into the input field                                  *)
(***************************************************************************)
Queries ==
    {<<>>,
     <<" ">>,
     <<"C", "o", "n", "n", "e", "c", "t">>,
     <<"p", "r", "i", "c", "e", " ", "o", "f">>,
     <<"p", "r", "i", "c", "e", " ", "o", "f", " ", "B", "T", "C">>,
     <<"h", "i">>}

\* the queries of a wider range: the three routes in several spellings, the
\* nine keys of cryptoSymbolMappings, and tokens that are no key of it
QConnect == <<"c", "o", "n", "n", "e", "c", "t">>
QConnectUpper == <<"C", "O", "N", "N", "E", "C", "T">>
QConnectSpace == <<"C", "o", "n", "n", "e", "c", "t", " ">>
QConnectPriceOf ==
    <<"c", "o", "n", "n", "e", "c", "t", " ", "p", "r", "i", "c", "e", " ", "o", "f", " ", "s", "o", "l">>
QPriceOfConnect ==
    <<"p", "r", "i", "c", "e", " ", "o", "f", " ", "c", "o", "n", "n", "e", "c", "t">>
QPriceOfBtc ==
    <<"p", "r", "i", "c", "e", " ", "o", "f", " ", "B", "T", "C">>
QPriceOfEth ==
    <<"P", "r", "i", "c", "e", " ", "O", "f", " ", "e", "t", "h">>
QPriceOfDoge ==
    <<"P", "R", "I", "C", "E", " ", "O", "F", " ", "D", "o", "g", "e">>
QPriceOfAda ==
    <<"p", "r", "i", "c", "e", " ", "o", "f", " ", "a", "d", "a", "?">>
QPriceOfXrp ==
    <<"t", "h", "e", " ", "p", "r", "i", "c", "e", " ", "o", "f", " ", "X", "R", "P">>
QPriceOfMatic ==
    <<"p", "r", "i", "c", "e", " ", "o", "f", " ", "m", "a", "t", "i", "c">>
QPriceOfBnb ==
    <<"p", "r", "i", "c", "e", " ", "o", "f", " ", "b", "n", "b">>
QPriceOfDot ==
    <<"p", "r", "i", "c", "e", " ", "o", "f", " ", "D", "o", "t">>
QPriceOfXyz ==
    <<"p", "r", "i", "c", "e", " ", "o", "f", " ", "X", "y", "z">>
QPriceOfConstructor ==
    <<"p", "r", "i", "c", "e", " ", "o", "f", " ", "c", "o", "n", "s", "t", "r", "u", "c", "t", "o", "r">>
QPriceOfConstructorCap ==
    <<"p", "r", "i", "c", "e", " ", "o", "f", " ", "C", "o", "n", "s", "t", "r", "u", "c", "t", "o", "r">>
QPriceOfProto ==
    <<"p", "r", "i", "c", "e", " ", "o", "f", " ", "_", "_", "p", "r", "o", "t", "o", "_", "_">>
QPriceOfNothing == <<"p", "r", "i", "c", "e", " ", "o", "f">>
QPrice == <<"p", "r", "i", "c", "e">>
QHi == <<"h", "i">>

SoloQueries ==
    {QConnect,
     QConnectUpper,
     QConnectSpace,
     QConnectPriceOf,
     QPriceOfConnect,
     QPriceOfBtc,
     QPriceOfEth,
     QPriceOfDoge,
     QPriceOfAda,
     QPriceOfXrp,
     QPriceOfMatic,
     QPriceOfBnb,
     QPriceOfDot,
     QPriceOfXyz,
     QPriceOfConstructor,
     QPriceOfConstructorCap,
     QPriceOfProto,
     QPriceOfNothing,
     QPrice,
     QHi}

(***************************************************************************)
(* State                                                                   *)
(***************************************************************************)
Init ==
    /\ query = Empty
    /\ response = Empty
    /\ loading = FALSE
    /\ chatHistory = <<>>
    /\ userAuthSig = NoSig
    /\ ethereum = "unread"
    /\ pc = [i \in Inv |-> "idle"]
    /\ q = [i \in Inv |-> Empty]
    /\ address = [i \in Inv |-> Empty]
    /\ cryptoSymbol = [i \in Inv |-> Empty]
    /\ fullResponse = [i \in Inv |-> Empty]
    /\ answers = [i \in Inv |-> <<>>]
    /\ owner = <<>>

\* line 76 without trim()
IsBlankNoTrim(s) == s = Empty

\* line 76: !query.trim()
IsBlank(s) == trim(s) = Empty

\* line 84 without toLowerCase()
IsConnectCaseSensitive(s) == s = Connect

\* line 84: query.toLowerCase() === 'connect'
IsConnect(s) == toLowerCase(s) = Connect

\* line 89: query.toLowerCase().includes('price of')
IsPriceQuery(s) == includes(toLowerCase(s), PriceOf)

\* line 163 left out: only a rejected fetch counts as a failure
OpenFailedNoOkCheck(out) == out.throws

\* line 163: !apiResponse.ok, and the rejection of fetch caught at line 184
OpenFailed(out) == out.throws \/ ~out.ok

\* line 183 guarded by a non-empty text
LogStreamEndNonEmpty(hist, full) ==
    IF full = Empty THEN hist ELSE Append(hist, AiMessage(full))

\* line 183 overwriting the last entry of the log instead of spreading it
LogStreamEndReplace(hist, full) ==
    IF hist = <<>>
    THEN <<AiMessage(full)>>
    ELSE [hist EXCEPT ![Len(hist)] = AiMessage(full)]

\* line 183 run twice
LogStreamEndTwice(hist, full) ==
    Append(Append(hist, AiMessage(full)), AiMessage(full))

\* line 183: the log after the stream has ended
LogStreamEnd(hist, full) == Append(hist, AiMessage(full))

\* lines 177-178 putting the delta in front of the text
AccumulateInFront(full, chunk) ==
    IF ChunkParses(chunk) THEN ChunkDelta(chunk) \o full ELSE full

\* lines 175-181: the accumulated text after a chunk
Accumulate(full, chunk) ==
    IF ChunkParses(chunk) THEN full \o ChunkDelta(chunk) ELSE full

\* the catch of lines 179-181 left out: a chunk that does not parse throws
\* to the catch of line 184
AfterChunkNoCatch(chunk) == IF ChunkParses(chunk) THEN "read" ELSE "done"

\* lines 179-181: where the loop goes after a chunk, parsed or not
AfterChunk(chunk) == "read"

\* line 185 adding the message to the text shown instead of replacing it
AfterReadErrorKeepsText(shown) == shown \o MsgOllamaFailed

\* line 185: the response once a read has rejected, whatever was shown
AfterReadError(shown) == MsgOllamaFailed

\* the finally block left out
LoadingNoFinally == loading

\* lines 109-111: the loading flag once the finally block has run
LoadingAfterFinally == FALSE

\* an invocation leaves handleQuery by a return or a catch; the finally
\* block runs
Return(i) ==
    /\ pc' = [pc EXCEPT ![i] = "done"]
    /\ loading' = LoadingAfterFinally

\* an invocation is suspended at the await `at`; setLoading(true) of line 74
\* stands
Await(i, at) ==
    /\ pc' = [pc EXCEPT ![i] = at]
    /\ loading' = TRUE

\* the collaborator called by `call` answers invocation i with `out`
Answered(i, call, out) ==
    answers' = [answers EXCEPT ![i] = Append(@, [call |-> call, out |-> out])]

\* the number of values the reads have delivered so far
RECURSIVE ValuesIn(_)
ValuesIn(as) ==
    IF as = <<>> THEN 0
    ELSE (IF Head(as).call = "readValue" THEN 1 ELSE 0) + ValuesIn(Tail(as))

RECURSIVE ReadsDeliveredTo(_)
ReadsDeliveredTo(n) ==
    IF n = 0 THEN 0 ELSE ValuesIn(answers[n]) + ReadsDeliveredTo(n - 1)

ReadsDelivered == ReadsDeliveredTo(MaxSubmits)

\* lines 31 and 133: window.ethereum, the same at every read
WindowEthereum ==
    IF ethereum = "unread" THEN {"present", "absent"} ELSE {ethereum}

\* line 210: onChange of the input field
onChange(s) ==
    /\ \E i \in Inv : pc[i] = "idle"
    /\ s # query
    /\ query' = s
    /\ UNCHANGED <<response, loading, chatHistory, userAuthSig, ethereum, pc, q,
                   address, cryptoSymbol, fullResponse, answers, owner>>

\* lines 72-105, 130-138 and 155-157: a click on Ask runs handleQuery up to
\* its first await, or to its return when it awaits nothing
handleQuery(i) ==
    /\ pc[i] = "idle"
    /\ \A j \in Inv : j < i => pc[j] # "idle"
    /\ q' = [q EXCEPT ![i] = query]
    /\ UNCHANGED <<query, userAuthSig, address, fullResponse, answers>>
    /\ IF IsBlank(query)
       THEN /\ response' = MsgEnterQuery
            /\ Return(i)
            /\ UNCHANGED <<chatHistory, owner, cryptoSymbol, ethereum>>
       ELSE /\ chatHistory' = Append(chatHistory, UserMessage(query))
            /\ owner' = Append(owner, i)
            /\ IF IsConnect(query)
               THEN /\ UNCHANGED cryptoSymbol
                    /\ ethereum' \in WindowEthereum
                    /\ IF ethereum' = "absent"
                       THEN response' = MsgNoProvider /\ Return(i)
                       ELSE response' = MsgConnecting /\ Await(i, "requestAccounts")
               ELSE IF IsPriceQuery(query)
                    THEN IF extractCryptoSymbol(query) = Null
                         THEN /\ response' = MsgInvalidSymbol
                              /\ Return(i)
                              /\ UNCHANGED <<cryptoSymbol, ethereum>>
                         ELSE /\ cryptoSymbol' =
                                    [cryptoSymbol EXCEPT ![i] = extractCryptoSymbol(query)]
                              /\ response' = Empty
                              /\ Await(i, "axiosGet")
                              /\ UNCHANGED ethereum
                    ELSE /\ response' = Empty
                         /\ Await(i, "fetch")
                         /\ UNCHANGED <<cryptoSymbol, ethereum>>

\* lines 138-146 and 29-36: eth_requestAccounts settles; handleConnect runs on
\* to the await inside authenticateUser
requestAccounts(i, out) ==
    /\ pc[i] = "requestAccounts"
    /\ Answered(i, "requestAccounts", out)
    /\ UNCHANGED <<query, chatHistory, userAuthSig, ethereum, q, cryptoSymbol,
                   fullResponse, owner>>
    /\ IF out.throws
       THEN /\ response' = MsgConnectFailed
            /\ Return(i)
            /\ UNCHANGED address
       ELSE IF Len(out.accounts) = 0
            THEN /\ response' = MsgNoWallet
                 /\ Return(i)
                 /\ UNCHANGED address
            ELSE /\ address' = [address EXCEPT ![i] = out.accounts[1]]
                 /\ IF ethereum = "absent"
                    THEN /\ response' = MsgAuthenticated(out.accounts[1])
                         /\ Return(i)
                    ELSE /\ response' = MsgConnected(out.accounts[1])
                         /\ Await(i, "checkAndSignAuthMessage")

\* lines 36-42 and 147: checkAndSignAuthMessage settles; authenticateUser
\* returns the signature, or catches the error and returns undefined;
\* handleConnect does not look at what it returned
checkAndSignAuthMessage(i, out) ==
    /\ pc[i] = "checkAndSignAuthMessage"
    /\ Answered(i, "checkAndSignAuthMessage", out)
    /\ userAuthSig' = IF out.throws THEN userAuthSig ELSE out.authSig
    /\ response' = MsgAuthenticated(address[i])
    /\ Return(i)
    /\ UNCHANGED <<query, chatHistory, ethereum, q, address, cryptoSymbol,
                   fullResponse, owner>>

\* lines 96-102 and 117-126: the price request settles
axiosGet(i, res) ==
    /\ pc[i] = "axiosGet"
    /\ Answered(i, "axiosGet", res)
    /\ response' = MsgPrice(cryptoSymbol[i], fetchCryptoPrice(res))
    /\ chatHistory' =
           Append(chatHistory, AiMessage(MsgPrice(cryptoSymbol[i], fetchCryptoPrice(res))))
    /\ owner' = Append(owner, i)
    /\ Return(i)
    /\ UNCHANGED <<query, userAuthSig, ethereum, q, address, cryptoSymbol,
                   fullResponse>>

\* lines 157-170 and 184-186: the request to the inference service settles
fetch(i, out) ==
    /\ pc[i] = "fetch"
    /\ Answered(i, "fetch", out)
    /\ UNCHANGED <<query, chatHistory, userAuthSig, ethereum, q, address,
                   cryptoSymbol, owner>>
    /\ IF OpenFailed(out)
       THEN /\ response' = IF out.throws THEN MsgOllamaFailed ELSE MsgAIFailed
            /\ Return(i)
            /\ UNCHANGED fullResponse
       ELSE /\ fullResponse' = [fullResponse EXCEPT ![i] = Empty]
            /\ Await(i, "read")
            /\ UNCHANGED response

\* lines 172-181: a read delivers a value
readValue(i, value) ==
    /\ pc[i] = "read"
    /\ ReadsDelivered < MaxReads
    /\ Answered(i, "readValue", value)
    /\ fullResponse' = [fullResponse EXCEPT ![i] = Accumulate(@, decode(value))]
    /\ response' = Accumulate(response, decode(value))
    /\ IF AfterChunk(decode(value)) = "read"
       THEN UNCHANGED <<pc, loading>>
       ELSE Return(i)
    /\ UNCHANGED <<query, chatHistory, userAuthSig, ethereum, q, address,
                   cryptoSymbol, owner>>

\* lines 172-173 and 183: a read reports the end of the stream
readDone(i) ==
    /\ pc[i] = "read"
    /\ Answered(i, "readDone", <<>>)
    /\ chatHistory' = LogStreamEnd(chatHistory, fullResponse[i])
    /\ owner' = owner \o [k \in 1..(Len(chatHistory') - Len(chatHistory)) |-> i]
    /\ Return(i)
    /\ UNCHANGED <<query, response, userAuthSig, ethereum, q, address,
                   cryptoSymbol, fullResponse>>

\* lines 172 and 184-186: a read rejects
readThrows(i) ==
    /\ pc[i] = "read"
    /\ Answered(i, "readThrows", <<>>)
    /\ response' = AfterReadError(response)
    /\ Return(i)
    /\ UNCHANGED <<query, chatHistory, userAuthSig, ethereum, q, address,
                   cryptoSymbol, fullResponse, owner>>

Next ==
    \/ \E s \in Queries : onChange(s)
    \/ \E i \in Inv : handleQuery(i)
    \/ \E i \in Inv, out \in AccountsOutcomes : requestAccounts(i, out)
    \/ \E i \in Inv, out \in SignOutcomes : checkAndSignAuthMessage(i, out)
    \/ \E i \in Inv, res \in AxiosOutcomes : axiosGet(i, res)
    \/ \E i \in Inv, out \in FetchOutcomes : fetch(i, out)
    \/ \E i \in Inv, value \in Values : readValue(i, value)
    \/ \E i \in Inv : readDone(i)
    \/ \E i \in Inv : readThrows(i)

Spec == Init /\ [][Next]_vars

\* every await settles: the collaborator answers or errors, and a response
\* body ends or fails after finitely many reads
Settle(i) ==
    \/ \E out \in AccountsOutcomes : requestAccounts(i, out)
    \/ \E out \in SignOutcomes : checkAndSignAuthMessage(i, out)
    \/ \E res \in AxiosOutcomes : axiosGet(i, res)
    \/ \E out \in FetchOutcomes : fetch(i, out)
    \/ \E value \in Values : readValue(i, value)
    \/ readDone(i)
    \/ readThrows(i)

\* while some await is pending, one of the pending awaits settles
FairSpec == Spec /\ WF_vars(\E i \in Inv : Settle(i))

\* One query handled alone, over the wider ranges of queries and of values:
\* the query is in the input field, typed before the click, and the one
\* click on Ask runs to its end.
SoloInit ==
    /\ query \in SoloQueries
    /\ response = Empty
    /\ loading = FALSE
    /\ chatHistory = <<>>
    /\ userAuthSig = NoSig
    /\ ethereum = "unread"
    /\ pc = [i \in Inv |-> "idle"]
    /\ q = [i \in Inv |-> Empty]
    /\ address = [i \in Inv |-> Empty]
    /\ cryptoSymbol = [i \in Inv |-> Empty]
    /\ fullResponse = [i \in Inv |-> Empty]
    /\ answers = [i \in Inv |-> <<>>]
    /\ owner = <<>>

SoloNext ==
    \/ handleQuery(1)
    \/ \E out \in AccountsOutcomes : requestAccounts(1, out)
    \/ \E out \in SignOutcomes : checkAndSignAuthMessage(1, out)
    \/ \E res \in AxiosOutcomes : axiosGet(1, res)
    \/ \E out \in FetchOutcomes : fetch(1, out)
    \/ \E value \in SoloValues : readValue(1, value)
    \/ readDone(1)
    \/ readThrows(1)

SoloSpec == SoloInit /\ [][SoloNext]_vars

(***************************************************************************)
(* Vocabulary of the properties                                            *)
(***************************************************************************)
Started(i) == pc[i] # "idle"
InFlight(i) == pc[i] \notin {"idle", "done"}
Resolved(i) == pc[i] = "done"
\* no other click on Ask has happened
Alone(i) == \A j \in Inv \ {i} : pc[j] = "idle"

UserIdx(i) ==
    {k \in DOMAIN chatHistory : owner[k] = i /\ chatHistory[k].sender = "user"}
AgentIdx(i) ==
    {k \in DOMAIN chatHistory : owner[k] = i /\ chatHistory[k].sender = "ai"}

OnlyWhiteSpace(s) == \A k \in 1..Len(s) : s[k] \in {" ", "\t", "\n"}

QPriceOfNoToken == <<"p", "r", "i", "c", "e", " ", "o", "f">>

FirstAnswer(i, call) == answers[i] # <<>> /\ answers[i][1].call = call
LastAnswer(i, call) == answers[i] # <<>> /\ answers[i][Len(answers[i])].call = call

\* the price service failed, or its answer holds no price for the symbol
PriceFailed(i) ==
    /\ FirstAnswer(i, "axiosGet")
    /\ answers[i][1].out.throws \/ ~answers[i][1].out.hasSymbol

\* the wallet returned an account
AccountsGranted(i) ==
    /\ FirstAnswer(i, "requestAccounts")
    /\ ~answers[i][1].out.throws
    /\ answers[i][1].out.accounts # <<>>

\* the wallet returned an account and the signature request returned a proof
WalletSucceeded(i) ==
    /\ AccountsGranted(i)
    /\ LastAnswer(i, "checkAndSignAuthMessage")
    /\ ~answers[i][Len(answers[i])].out.throws

\* the wallet returned an account and the signature request failed
AuthFailed(i) ==
    /\ AccountsGranted(i)
    /\ LastAnswer(i, "checkAndSignAuthMessage")
    /\ answers[i][Len(answers[i])].out.throws

\* the query went to the wallet and the wallet did not succeed
WalletFailed(i) ==
    /\ Resolved(i)
    /\ toLowerCase(q[i]) = Connect
    /\ ~WalletSucceeded(i)

\* the request to the inference service was rejected or answered not OK
StreamOpenFailed(i) ==
    /\ FirstAnswer(i, "fetch")
    /\ answers[i][1].out.throws \/ ~answers[i][1].out.ok

StreamEnded(i) == LastAnswer(i, "readDone")

ErrorMessages ==
    {MsgFailed, MsgNoProvider, MsgNoWallet, MsgConnectFailed, MsgAIFailed,
     MsgOllamaFailed}

\* the well-formed fragments among the values a read may deliver, each with
\* the delta its response field carries
FragmentDelta ==
    (<<JsonHe>> :> <<"He">>) @@
    (<<JsonLlo, "\n">> :> <<"llo">>) @@
    (<<JsonDone>> :> <<>>)

\* the concatenation, in arrival order, of the deltas of the well-formed
\* fragments among the values delivered
RECURSIVE ExpectedText(_)
ExpectedText(as) ==
    IF as = <<>> THEN <<>>
    ELSE (IF Head(as).call = "readValue" /\ Head(as).out \in DOMAIN FragmentDelta
          THEN FragmentDelta[Head(as).out]
          ELSE <<>>) \o ExpectedText(Tail(as))

\* a value that is no well-formed fragment was delivered
SomeFragmentSkipped(i) ==
    \E k \in DOMAIN answers[i] :
        /\ answers[i][k].call = "readValue"
        /\ answers[i][k].out \notin DOMAIN FragmentDelta

C2_NoAgentEntryOnPriceFailure ==
    \A i \in Inv : PriceFailed(i) => AgentIdx(i) = {}

(***************************************************************************)
(* C3                                                                      *)
(***************************************************************************)
\* C3 as stated: at most one query is being handled at a time.
C3_AtMostOneInFlight ==
    Cardinality({i \in Inv : InFlight(i)}) <= 1

(***************************************************************************)
(* C4                                                                      *)
(***************************************************************************)
\* C4 as stated: every Agent entry of the log directly follows the User entry
\* it answers, so no two Agent entries are adjacent.
C4_AgentFollowsItsUser ==
    \A k \in DOMAIN chatHistory :
        chatHistory[k].sender = "ai" =>
            /\ k > 1
            /\ chatHistory[k - 1].sender = "user"
            /\ owner[k - 1] = owner[k]

(***************************************************************************)
(* C5                                                                      *)
(***************************************************************************)
\* C5 as stated: a connect query whose wallet calls both succeed has exactly
\* one Agent entry once resolved; one whose wallet calls fail has none.
C5_ConnectSuccessLogsAgent ==
    \A i \in Inv :
        /\ (Resolved(i) /\ WalletSucceeded(i)) => Cardinality(AgentIdx(i)) = 1
        /\ WalletFailed(i) => AgentIdx(i) = {}

(***************************************************************************)
(* C6                                                                      *)
(***************************************************************************)
\* C6 as stated: when the accounts request succeeds and authentication
\* fails, the response the query ends with is an error message, not the
\* 'authenticated successfully' confirmation.
C6_AuthFailureShowsError ==
    \A i \in Inv :
        (Alone(i) /\ Resolved(i) /\ AuthFailed(i)) =>
            /\ response \in ErrorMessages
            /\ response # MsgAuthenticated(address[i])

(***************************************************************************)
(* C7                                                                      *)
(***************************************************************************)
\* C7: once the stream of a generic query has ended, the log holds exactly
\* one Agent entry of that query, its text is the accumulated text (empty
\* or not), and the response shown for a query handled alone is that text,
\* not an error message.
C7_StreamEndLogsOneAgent ==
    \A i \in Inv :
        StreamEnded(i) =>
            /\ Resolved(i)
            /\ Cardinality(AgentIdx(i)) = 1
            /\ \A k \in AgentIdx(i) : chatHistory[k].text = fullResponse[i]
            /\ Alone(i) => response = fullResponse[i] /\ response \notin ErrorMessages

\* a stream has ended with an empty text after delivering a value
C7_Witness ==
    \E i \in Inv :
        /\ StreamEnded(i)
        /\ ValuesIn(answers[i]) >= 1
        /\ fullResponse[i] = Empty
        /\ \E k \in AgentIdx(i) : chatHistory[k].text = Empty

(***************************************************************************)
(* C8                                                                      *)
(***************************************************************************)
\* C8: a value that is no well-formed fragment does not end the reading (the
\* query is still reading right after any value was delivered), and the
\* accumulated text is always the concatenation, in arrival order, of the
\* deltas of the well-formed fragments delivered so far; so is the text of
\* the Agent entry once the stream has ended.
C8_MalformedFragmentsSkipped ==
    \A i \in Inv :
        /\ LastAnswer(i, "readValue") => pc[i] = "read"
        /\ FirstAnswer(i, "fetch") => fullResponse[i] = ExpectedText(answers[i])
        /\ StreamEnded(i) =>
               \A k \in AgentIdx(i) : chatHistory[k].text = ExpectedText(answers[i])

\* a stream has ended after a malformed fragment followed by a well-formed one
C8_Witness ==
    \E i \in Inv :
        /\ StreamEnded(i)
        /\ SomeFragmentSkipped(i)
        /\ Len(answers[i]) = 4
        /\ answers[i][2].out = <<NotJson>>
        /\ answers[i][3].out = <<JsonLlo, "\n">>
        /\ fullResponse[i] = <<"llo">>
        /\ \E k \in AgentIdx(i) : chatHistory[k].text = <<"llo">>

(***************************************************************************)
(* C9                                                                      *)
(***************************************************************************)
\* C9: a generic query whose request to the inference service is rejected or
\* answered not OK is resolved at once, never has an Agent entry, and the
\* response shown for a query handled alone is an error message.
C9_OpenFailureShowsError ==
    \A i \in Inv :
        StreamOpenFailed(i) =>
            /\ Resolved(i)
            /\ AgentIdx(i) = {}
            /\ Alone(i) => response \in {MsgAIFailed, MsgOllamaFailed}

\* a request answered not OK has left its error message
C9_Witness ==
    \E i \in Inv :
        /\ StreamOpenFailed(i)
        /\ ~answers[i][1].out.throws
        /\ Alone(i)
        /\ response = MsgAIFailed
        /\ Cardinality(UserIdx(i)) = 1

(***************************************************************************)
(* C10                                                                     *)
(***************************************************************************)
\* no query is in flight and the loading flag is false
Idle == loading = FALSE /\ \A i \in Inv : ~InFlight(i)

\* C10: when every await settles, the dispatcher is Idle again and again:
\* whatever has been submitted, a state follows in which every submitted
\* query is resolved and the loading flag is false; and a click on Ask is
\* never refused.
C10_ReturnsToIdle ==
    /\ []<>Idle
    /\ [](\A i \in Inv :
            (pc[i] = "idle" /\ \A j \in Inv : j < i => Started(j))
                => ENABLED handleQuery(i))

\* a query that awaited a collaborator is resolved, the flag is false and the
\* next click is still to come
C10_Witness ==
    \E i, j \in Inv :
        /\ Resolved(i) /\ answers[i] # <<>>
        /\ loading = FALSE
        /\ pc[j] = "idle"

(***************************************************************************)
(* C11                                                                     *)
(***************************************************************************)
\* C11: the log is append-only: at every step the log before the step is a
\* prefix of the log after it; no entry is removed, reordered or rewritten.
C11_LogAppendOnly ==
    [][/\ Len(chatHistory') >= Len(chatHistory)
       /\ SubSeq(chatHistory', 1, Len(chatHistory)) = chatHistory]_vars

\* two submits have each appended their User entry and their Agent entry
C11_Witness ==
    \E i, j \in Inv :
        /\ i # j
        /\ UserIdx(i) # {} /\ AgentIdx(i) # {}
        /\ UserIdx(j) # {} /\ AgentIdx(j) # {}
        /\ Len(chatHistory) = 4

(***************************************************************************)
(* C12                                                                     *)
(***************************************************************************)
\* C12: every submit has at most one Agent entry in the log, and an Agent
\* entry of a submit comes after the User entry of that same submit.
C12_AtMostOneAgentAfterUser ==
    \A i \in Inv :
        /\ Cardinality(AgentIdx(i)) <= 1
        /\ \A a \in AgentIdx(i) : \E u \in UserIdx(i) : u < a

\* two overlapping submits: the one submitted first was answered last, with
\* the other's entries between its User entry and its Agent entry
C12_Witness ==
    \E i, j \in Inv :
        /\ i # j
        /\ owner = <<i, j, j, i>>
        /\ chatHistory[1].sender = "user" /\ chatHistory[4].sender = "ai"
        /\ chatHistory[2].sender = "user" /\ chatHistory[3].sender = "ai"
        /\ StreamEnded(i)

(***************************************************************************)
(* C13                                                                     *)
(***************************************************************************)
\* what each value contributes when every fragment of a read is parsed on
\* its own: the deltas of its well-formed fragments, in order
DeltasPerFragment ==
    (<<JsonHe>> :> <<"He">>) @@
    (<<JsonLlo, "\n">> :> <<"llo">>) @@
    (<<JsonHe, "\n", JsonLlo, "\n">> :> <<"He", "llo">>) @@
    (<<NotJson, "\n", JsonLlo, "\n">> :> <<"llo">>) @@
    (<<JsonOpen, ByteC3, ByteA9, JsonClose, "\n">> :> <<EAcute>>)

RECURSIVE ExpectedTextPerFragment(_)
ExpectedTextPerFragment(as) ==
    IF as = <<>> THEN <<>>
    ELSE (IF Head(as).call = "readValue" /\ Head(as).out \in DOMAIN DeltasPerFragment
          THEN DeltasPerFragment[Head(as).out]
          ELSE <<>>) \o ExpectedTextPerFragment(Tail(as))

\* C13 as stated: when a read carries several fragments, every well-formed
\* fragment of it contributes its delta to the accumulated text and a
\* malformed one discards only itself: the accumulated text is the
\* concatenation of the deltas of all well-formed fragments of all reads.
C13_EachFragmentParsedAlone ==
    \A i \in Inv :
        FirstAnswer(i, "fetch") =>
            fullResponse[i] = ExpectedTextPerFragment(answers[i])

(***************************************************************************)
(* C14                                                                     *)
(***************************************************************************)
\* the step is a read of invocation i that delivered a value
ReadStep(i) ==
    /\ Len(answers'[i]) = Len(answers[i]) + 1
    /\ answers'[i][Len(answers'[i])].call = "readValue"

\* C14 as stated: every read of a generic query that delivers a well-formed
\* fragment is followed by a response equal to that query's accumulated text
\* so far, and a read that delivers anything else updates nothing, so that
\* there are as many partial updates as well-formed fragments.
C14_ResponseIsAccumulatedText ==
    [][\A i \in Inv :
          ReadStep(i) =>
              IF answers'[i][Len(answers'[i])].out \in DOMAIN FragmentDelta
              THEN /\ response' = ExpectedText(answers'[i])
                   /\ response' = fullResponse'[i]
                   /\ response' # response
              ELSE response' = response]_vars

(***************************************************************************)
(* C15                                                                     *)
(***************************************************************************)
\* C15: the partial updates of a generic query come in the order of its
\* reads (the response of a query handled alone is the deltas of its
\* well-formed fragments in arrival order); the read that ends the stream,
\* or fails, is the last event of the query, so no partial update follows
\* it; and the Agent entry exists only once the stream has ended: while the
\* last event of the query is a partial update, it has no Agent entry.
C15_AgentEntryAfterLastPartial ==
    \A i \in Inv :
        /\ \A k \in DOMAIN answers[i] :
               answers[i][k].call \in {"readDone", "readThrows"}
                   => k = Len(answers[i])
        /\ LastAnswer(i, "readValue") => AgentIdx(i) = {}
        /\ (FirstAnswer(i, "fetch") /\ AgentIdx(i) # {})
               => StreamEnded(i) /\ Resolved(i)
        /\ (Alone(i) /\ (pc[i] = "read" \/ StreamEnded(i)))
               => response = ExpectedText(answers[i])

\* a stream has ended after two partial updates, 'He' then 'llo'
C15_Witness ==
    \E i \in Inv :
        /\ Alone(i)
        /\ Len(answers[i]) = 4
        /\ answers[i][2].out = <<JsonHe>>
        /\ answers[i][3].out = <<JsonLlo, "\n">>
        /\ StreamEnded(i)
        /\ response = <<"He", "llo">>
        /\ \E k \in AgentIdx(i) : chatHistory[k].text = <<"He", "llo">>

(***************************************************************************)
(* C16                                                                     *)
(***************************************************************************)
\* the route the rule order gives each query of the wider range
ExpectedRoute ==
    [s \in SoloQueries |->
        IF s \in {QConnect, QConnectUpper} THEN "connect"
        ELSE IF s \in {QConnectSpace, QPrice, QHi} THEN "generic"
        ELSE "price"]

\* the collaborators of each route, and the awaits on them
RouteCalls ==
    [connect |-> {"requestAccounts", "checkAndSignAuthMessage"},
     price |-> {"axiosGet"},
     generic |-> {"fetch", "read", "readValue", "readDone", "readThrows"}]

\* the collaborators invocation i has called so far
Touched(i) ==
    {answers[i][k].call : k \in DOMAIN answers[i]}
        \cup (IF InFlight(i) THEN {pc[i]} ELSE {})

\* C16: a submitted non-empty query calls the collaborators of one route
\* only, the route the fixed rule order gives it: 'connect' in any case goes
\* to the wallet; otherwise a query containing 'price of' goes to the price
\* service, or is rejected at once when no token follows; every other query
\* goes to the inference service.  Right after the click the query is
\* suspended on its route or, having called nothing, already resolved with
\* that route's message.
C16_RoutedByRuleOrder ==
    \A i \in Inv :
        (Started(i) /\ q[i] \in SoloQueries) =>
            /\ Touched(i) \subseteq RouteCalls[ExpectedRoute[q[i]]]
            /\ Touched(i) = {} =>
                   \/ ExpectedRoute[q[i]] = "connect" /\ response = MsgNoProvider
                   \/ /\ ExpectedRoute[q[i]] = "price"
                      /\ q[i] = QPriceOfNothing
                      /\ response = MsgInvalidSymbol
            /\ (ExpectedRoute[q[i]] = "price" /\ q[i] # QPriceOfNothing)
                   => Touched(i) # {}

\* 'connect price of sol' has been answered by the price service, and has an
\* Agent entry for it
C16_Witness ==
    /\ q[1] = QConnectPriceOf
    /\ Resolved(1)
    /\ Touched(1) = {"axiosGet"}
    /\ AgentIdx(1) # {}

(***************************************************************************)
(* C17                                                                     *)
(***************************************************************************)
\* for each query with a token after 'price of': the mapped identifier when
\* the lower-cased token is one of the nine keys, the lower-cased token
\* otherwise
ExpectedSymbol ==
    (QConnectPriceOf :> <<"solana">>) @@
    (QPriceOfConnect :> <<"c", "o", "n", "n", "e", "c", "t">>) @@
    (QPriceOfBtc :> <<"bitcoin">>) @@
    (QPriceOfEth :> <<"ethereum">>) @@
    (QPriceOfDoge :> <<"dogecoin">>) @@
    (QPriceOfAda :> <<"cardano">>) @@
    (QPriceOfXrp :> <<"ripple">>) @@
    (QPriceOfMatic :> <<"polygon">>) @@
    (QPriceOfBnb :> <<"binancecoin">>) @@
    (QPriceOfDot :> <<"polkadot">>) @@
    (QPriceOfXyz :> <<"x", "y", "z">>) @@
    (QPriceOfConstructor :>
        <<"c", "o", "n", "s", "t", "r", "u", "c", "t", "o", "r">>) @@
    (QPriceOfConstructorCap :>
        <<"c", "o", "n", "s", "t", "r", "u", "c", "t", "o", "r">>) @@
    (QPriceOfProto :> <<"_", "_", "p", "r", "o", "t", "o", "_", "_">>)

\* C17 as stated: the symbol a price query is resolved to is the mapped
\* identifier when its lower-cased token is one of the nine keys of the
\* mapping, and the lower-cased token itself otherwise, 'constructor' and
\* '__proto__' included.
C17_TokenResolvedOrPassedThrough ==
    \A i \in Inv :
        (Started(i) /\ q[i] \in DOMAIN ExpectedSymbol) =>
            cryptoSymbol[i] = ExpectedSymbol[q[i]]

(***************************************************************************)
(* C18                                                                     *)
(***************************************************************************)
\* the bytes the reads have delivered, joined in arrival order
RECURSIVE BytesRead(_)
BytesRead(as) ==
    IF as = <<>> THEN <<>>
    ELSE (IF Head(as).call = "readValue" THEN Head(as).out ELSE <<>>)
             \o BytesRead(Tail(as))

\* the texts line 174 has decoded, one read after the other, joined
RECURSIVE TextDecoded(_)
TextDecoded(as) ==
    IF as = <<>> THEN <<>>
    ELSE (IF Head(as).call = "readValue" THEN decode(Head(as).out) ELSE <<>>)
             \o TextDecoded(Tail(as))

\* C18 as stated: decoding the reads one after the other yields the same
\* text as decoding the concatenation of their bytes, wherever the read
\* boundaries fall.
C18_SplitCharacterReassembled ==
    \A i \in Inv :
        TextDecoded(answers[i]) = decode(BytesRead(answers[i]))

(***************************************************************************)
(* C19                                                                     *)
(***************************************************************************)
\* C19 as stated: the loading flag is true in every state in which some
\* submitted query is still awaiting a collaborator, and false only when no
\* query is in flight, however the submits interleave.
C19_LoadingWhileInFlight ==
    loading = (\E i \in Inv : InFlight(i))

(***************************************************************************)
(* C20                                                                     *)
(***************************************************************************)
\* C20: a generic query whose read rejects, with or without deltas already
\* accumulated, is resolved with no Agent entry in the log; for a query
\* handled alone the response is then the error message alone, the partial
\* text gone, and the dispatcher is Idle.
C20_ReadFailureDropsPartialText ==
    \A i \in Inv :
        LastAnswer(i, "readThrows") =>
            /\ Resolved(i)
            /\ AgentIdx(i) = {}
            /\ Cardinality(UserIdx(i)) = 1
            /\ Alone(i) => response = MsgOllamaFailed /\ Idle

\* a read has rejected after the deltas 'He' and 'llo' were accumulated
C20_Witness ==
    \E i \in Inv :
        /\ LastAnswer(i, "readThrows")
        /\ ValuesIn(answers[i]) = 2
        /\ fullResponse[i] = <<"He", "llo">>
        /\ Alone(i)
        /\ response = MsgOllamaFailed
        /\ Len(chatHistory) = 1

====
